---- MODULE Spec2Model ----
(***************************************************************************)
(* The publish/subscribe broker of mjpeg-proxy (src/pubsub.go), the chunk  *)
(* parser that feeds it (the read loop of src/mjpeg-proxy.go, behind the   *)
(* Chunker handle that pubsub.go calls) and the per-client stream          *)
(* responders (PubSub.ServeHTTP).                                          *)
(*                                                                         *)
(* Every Go channel of the program is unbuffered, so a send and its        *)
(* receive are one step of the model: Subscribe/Unsubscribe calls meet     *)
(* the broker's select, the chunker's send meets the broker's receive on   *)
(* pubChan, and doPublish's non-blocking send meets a responder parked in  *)
(* its select.                                                             *)
(***************************************************************************)
EXTENDS Integers, Sequences, FiniteSets, TLC

\* Number of HTTP requests (one Subscriber each) the model serves.
NSubs == 2
\* Number of lines (boundary and header lines) the upstream delivers to
\* the chunker that is followed line by line.
MaxLines == 3
\* Number of chunks the upstream delivers over all connections.
MaxChunks == 2
Subs == 1..NSubs
\* Content-Length of a chunk: 0 (the final chunk) or positive.
Sizes == {0, 1}
\* Bytes of the boundary and header lines in front of a chunk's data.
HeadLen == 1
\* The last time the clock reaches, in milliseconds.
MaxTime == 3
\* pubChan/chChan value of a nil channel; channel k is the one made by the
\* k-th call of Connect.
NilChan == 0

VARIABLES
    \* ---- PubSub (the broker) ----
    subscribers,   \* pubSub.subscribers
    pubChan,       \* pubSub.pubChan: NilChan or a channel id
    timerArmed,    \* pubSub.stopTimer is running
    timerC,        \* a value is waiting in pubSub.stopTimer.C (capacity 1)
    brokerPc,      \* "select": in loop's select; "connect": inside chunker.Connect();
                   \* old broker: "stopping" (blocked in stopChan <- true),
                   \* "panic" (send on a closed channel), "panicClose"
    \* ---- Chunker ----
    started,       \* chunker.Started()
    chPc,          \* "none" | "read" (in readChunkHeader/Data) | "send" (in its select);
                   \* line by line: "boundary" | "header" | "data" | "done"
    chChan,        \* the pubChan this run was started with
    chData,        \* the chunk the run is about to publish
    stopSig,       \* the stop signal of the current run has been given
    closedChans,   \* the publish channels closed by their run
    produced,      \* chunks read from the upstream so far
    \* ---- Stream responders, one per request ----
    rpc,           \* "subscribe" | "setup" | "select" | "frame" | "unsubscribe" | "done"
    closeCount,    \* times close(sub.ChunkChannel) ran
    chunkOk,       \* ServeHTTP's chunkOk
    headersSent,   \* ServeHTTP's headersSent
    status,        \* HTTP status written: 0 (none), 200, 503
    exit,          \* why the loop was left
    recv,          \* frames received on sub.ChunkChannel (kept when mode # "req")
    subAt,         \* Len(published) when the subscribe was processed (same)
    \* ---- history ----
    published,     \* frames the broker took from pubChan (kept when mode # "req")
    connects,      \* calls of chunker.Connect()
    stops,         \* calls of chunker.Stop() since the last start of the chunker
    \* ---- history of the idle timer ----
    cStale,        \* the value in stopTimer.C was sent before the last re-arm
    eventSeen,     \* the timer case ran since the timer was last armed
    drained,       \* the delay that is running was armed by a re-arm that took a
                   \* pending value out of stopTimer.C, with no subscribe since
    \* ---- time in ServeHTTP (followed when mode = "timed") ----
    now,           \* time.Now(), in milliseconds
    endTime,       \* ServeHTTP's endTime
    sendInterval,  \* ServeHTTP's sendInterval
    lastSendTime,  \* ServeHTTP's lastSendTime
    parts,         \* the parts written to the client (kept when a single
                   \* client is served: mode "timed" or "e2e")
    \* ---- which part of the program a behaviour follows ----
    mode,          \* "pubsub" | "req" | "timed" | "e2e" | "parse" | "old"
    script,        \* the chunk sizes the upstream still has to deliver ("e2e")
    \* ---- readChunkHeader / readChunkData ("parse") ----
    lines,         \* the header lines the upstream still has to deliver
    size,          \* readChunkHeader's size
    crashed,       \* the process ended in a run-time panic
    pubCloses,     \* times the deferred close(pubChan) ran
    bodyCloses,    \* times the deferred dclose(body) ran
    \* ---- the broker of src/mjpeg-proxy.go ("old") ----
    stopChan,      \* pubSub.stopChan: NilChan or a channel id
    stopClosed     \* the stop channels closed by their chunker

vars == <<subscribers, pubChan, timerArmed, timerC, brokerPc,
          started, chPc, chChan, chData, stopSig, closedChans, produced,
          rpc, closeCount, chunkOk, headersSent, status, exit, recv, subAt,
          published, connects, stops, cStale, eventSeen, drained,
          now, endTime, sendInterval, lastSendTime, parts,
          mode, script, lines, size, crashed, pubCloses, bodyCloses,
          stopChan, stopClosed>>

timerHist == <<cStale, eventSeen, drained>>
timeVars == <<now, endTime, sendInterval, lastSendTime, parts>>
brokerVars == <<subscribers, pubChan, timerArmed, timerC, brokerPc, timerHist>>
chunkerVars == <<started, chPc, chChan, chData, stopSig, closedChans, produced>>
respVars == <<rpc, closeCount, chunkOk, headersSent, status, exit, recv, subAt,
              timeVars>>
histVars == <<published, connects, stops>>
\* What no step of the broker, the chunker or a responder of pubsub.go changes.
otherVars == <<mode, script, lines, size, crashed, pubCloses, bodyCloses,
               stopChan, stopClosed>>

NoChunk == [id |-> 0, size |-> 0]

\* The last element of a non-empty sequence.
Last(q) == q[Len(q)]

\* NewPubSub: no subscriber, no chunker, the idle timer created and drained.
BrokerInit ==
    /\ subscribers = {}
    /\ pubChan = NilChan
    /\ timerArmed = FALSE
    /\ timerC = FALSE
    /\ brokerPc = "select"
    /\ started = FALSE
    /\ chPc = "none"
    /\ chChan = NilChan
    /\ chData = NoChunk
    /\ stopSig = FALSE
    /\ closedChans = {}
    /\ produced = 0
    /\ published = <<>>
    /\ connects = 0
    /\ stops = 0
    /\ cStale = FALSE
    /\ eventSeen = FALSE
    /\ drained = FALSE
    /\ stopChan = NilChan
    /\ stopClosed = {}

\* The requests in clients are about to call Subscribe; the others are not made.
RespInit(clients) ==
    /\ rpc = [s \in Subs |-> IF s \in clients THEN "subscribe" ELSE "done"]
    /\ closeCount = [s \in Subs |-> 0]
    /\ chunkOk = [s \in Subs |-> FALSE]
    /\ headersSent = [s \in Subs |-> FALSE]
    /\ status = [s \in Subs |-> 0]
    /\ exit = [s \in Subs |-> "none"]
    /\ recv = [s \in Subs |-> <<>>]
    /\ subAt = [s \in Subs |-> 0]
    /\ now = 0
    /\ endTime = [s \in Subs |-> 0]
    /\ sendInterval = [s \in Subs |-> 0]
    /\ lastSendTime = [s \in Subs |-> 0]
    /\ parts = [s \in Subs |-> <<>>]

\* No chunk header is being parsed step by step.
ParseIdle ==
    /\ lines = <<>>
    /\ size = -1
    /\ crashed = FALSE
    /\ pubCloses = 0
    /\ bodyCloses = 0

Init ==
    /\ mode = "pubsub"
    /\ BrokerInit
    /\ RespInit(Subs)
    /\ script = <<>>
    /\ ParseIdle

(***************************************************************************)
(* Helpers of the broker                                                   *)
(***************************************************************************)

\* The record of what was published and what each subscriber received is
\* kept.
Recorded == mode # "req"

\* The record of the parts written to a client is kept.
Traced == mode \in {"timed", "e2e"}

\* A responder is ready to receive when it is parked in ServeHTTP's select.
Ready(s) == rpc[s] = "select"

\* Mutant of Delivered: the fan-out gives up at a subscriber that is not ready.
DeliveredUnlessOneBlocks(subs) ==
    IF \A s \in subs : Ready(s) THEN subs ELSE {}

\* Mutant of Delivered: the fan-out ends after the first successful send.
DeliveredToOne(subs) ==
    LET r == {s \in subs : Ready(s)}
    IN  IF r = {} THEN {} ELSE {CHOOSE s \in r : TRUE}

\* doPublish: the subscribers whose non-blocking send succeeds.
Delivered(subs) == {s \in subs : Ready(s)}

\* Mutant of Handed: the previous frame is handed over again.
HandedStale(pub, d) == IF pub = <<>> THEN d ELSE pub[Len(pub)]

\* doPublish: what a subscriber receives is the frame just taken from
\* pubChan (pub is what was published before it).
Handed(pub, d) == d

\* stopChunker: chunker.Stop() is called only for a non-nil pubChan.
StopCalled(ch) == ch # NilChan

\* stopChunker's effect on the count of Stop() calls.
StopsAfter(ch, n) == IF StopCalled(ch) THEN n + 1 ELSE n

\* chunker.Stop(): the read loop is signalled to end at its next select; a
\* chunker whose loop has returned is not affected (Stop is idempotent).
StopSigAfter(ch, sig) == IF StopCalled(ch) /\ chPc # "none" THEN TRUE ELSE sig

\* Mutant of TimeoutStops: the timer case does not look at the set.
TimeoutStopsAlways(subs) == TRUE

\* loop's timer case: the chunker is stopped only for an empty set.
TimeoutStops(subs) == Cardinality(subs) = 0

\* Mutant of CallsConnect: the nil test of doSubscribe is inverted.
CallsConnectInverted(ch, st) == ch # NilChan /\ ~st

\* doSubscribe/startChunker: Connect() is called when the broker holds no
\* publish channel and the chunker does not report itself started.
CallsConnect(ch, st) == ch = NilChan /\ ~st

\* Mutant of DrainedC: the value waiting in C is never taken out.
DrainedCNever(armed, c) == c

\* doUnsubscribe's timer dance for an emptied set: Stop(), drain C when Stop
\* reported the timer as not running, then Reset(stopDelay).
DrainedC(armed, c) == IF armed THEN c ELSE FALSE

\* Mutant of Removed: doUnsubscribe leaves the subscriber in the set.
RemovedNone(subs, s) == subs

\* doUnsubscribe: the set without s.
Removed(subs, s) == subs \ {s}

\* Mutant of ClosedBy: the loop of stopSubscribers ends after one subscriber.
ClosedByFirst(subs) == IF subs = {} THEN {} ELSE {CHOOSE s \in subs : TRUE}

\* stopSubscribers: the subscribers whose channel is closed (and which
\* doUnsubscribe then removes).
ClosedBy(subs) == subs

\* ServeHTTP after the loop: 503 when no header was sent and chunkOk is false.
AfterLoopStatus(hs, ok, st) == IF ~hs /\ ~ok THEN 503 ELSE st

\* doUnsubscribe for an emptied set: the idle timer is stopped, drained and
\* armed again.  A value that is still in C after that was sent before this
\* re-arm.
Rearm ==
    /\ timerArmed' = TRUE
    /\ timerC' = DrainedC(timerArmed, timerC)
    /\ cStale' = timerC'
    /\ eventSeen' = FALSE
    /\ drained' = (timerC /\ ~timerC')

\* Mutant of KeptAfterStop: stopSubscribers closes the channels and leaves
\* the subscribers in the set.
KeptAfterStopAll(subs) == subs

\* stopSubscribers: doUnsubscribe removes every subscriber it closed.
KeptAfterStop(subs) == subs \ ClosedBy(subs)

\* stopSubscribers as a whole: close every member's channel, remove it, and
\* arm the idle timer when the set was emptied by it.
StopSubscribers ==
    /\ closeCount' = [s \in Subs |->
                        IF s \in ClosedBy(subscribers)
                        THEN closeCount[s] + 1 ELSE closeCount[s]]
    /\ subscribers' = KeptAfterStop(subscribers)
    /\ IF ClosedBy(subscribers) # {} /\ subscribers' = {}
       THEN Rearm
       ELSE UNCHANGED <<timerArmed, timerC, timerHist>>

\* Chunker.Started() after Chunker.Stop(): Stop only signals the read loop,
\* which ends at its next select; until then the chunker stays started.
StartedAfterStop(st) == st

\* Chunker.Started() once the read loop has returned and the connection is
\* closed: the chunker is reset to not started.
StartedAfterRun == FALSE

\* The chunker's read loop returns: its deferred calls close pubChan and the
\* upstream body.
ChunkerEnds ==
    /\ closedChans' = closedChans \cup {chChan}
    /\ started' = StartedAfterRun
    /\ chPc' = "none"
    /\ chData' = NoChunk
    /\ stopSig' = FALSE

(***************************************************************************)
(* The broker: PubSub.loop and its handlers                                *)
(***************************************************************************)

\* case sub := <-pubSub.subChan: doSubscribe, up to the call of Connect().
\* Requests are numbered in the order in which the broker takes their
\* Subscribe call.
DoSubscribe(s) ==
    /\ brokerPc = "select"
    /\ rpc[s] = "subscribe"
    /\ \A r \in Subs : r < s => rpc[r] # "subscribe"
    /\ subscribers' = subscribers \cup {s}
    /\ rpc' = [rpc EXCEPT ![s] = "setup"]
    /\ subAt' = IF Recorded THEN [subAt EXCEPT ![s] = Len(published)]
                ELSE subAt
    /\ IF CallsConnect(pubChan, started)
       THEN brokerPc' = "connect" /\ connects' = connects + 1
       ELSE UNCHANGED <<brokerPc, connects>>
    /\ UNCHANGED otherVars
    /\ drained' = FALSE
    /\ UNCHANGED <<pubChan, timerArmed, timerC, cStale, eventSeen, chunkerVars,
                   closeCount, chunkOk, headersSent, status, exit, recv,
                   timeVars, published, stops>>

\* chunker.Connect() returns nil: startChunker makes pubChan and starts the run.
ConnectOK ==
    /\ brokerPc = "connect"
    /\ brokerPc' = "select"
    /\ pubChan' = connects
    /\ started' = TRUE
    /\ chPc' = "read"
    /\ chChan' = connects
    /\ stopSig' = FALSE
    /\ stops' = 0
    /\ UNCHANGED otherVars
    /\ UNCHANGED <<subscribers, timerArmed, timerC, timerHist, chData,
                   closedChans, produced, respVars, published, connects>>

\* chunker.Connect() returns an error: doSubscribe calls stopSubscribers.
ConnectFail ==
    /\ brokerPc = "connect"
    /\ brokerPc' = "select"
    /\ StopSubscribers
    /\ UNCHANGED otherVars
    /\ UNCHANGED <<pubChan, chunkerVars, rpc, chunkOk, headersSent, status,
                   exit, recv, subAt, timeVars, histVars>>

\* case data, ok := <-pubSub.pubChan with ok: the chunker's send meets the
\* broker's receive and doPublish fans the frame out.
Publish ==
    /\ brokerPc = "select"
    /\ chPc = "send"
    /\ pubChan # NilChan
    /\ pubChan = chChan
    /\ published' = IF Recorded THEN Append(published, chData) ELSE published
    /\ recv' = IF Recorded
               THEN [s \in Subs |->
                       IF s \in Delivered(subscribers)
                       THEN Append(recv[s], Handed(published, chData))
                       ELSE recv[s]]
               ELSE recv
    /\ rpc' = [s \in Subs |->
                  IF s \in Delivered(subscribers) THEN "frame" ELSE rpc[s]]
    /\ chunkOk' = [s \in Subs |->
                  IF s \in Delivered(subscribers) THEN TRUE ELSE chunkOk[s]]
    /\ IF chData.size = 0
       THEN ChunkerEnds
       ELSE /\ chPc' = "read"
            /\ chData' = NoChunk
            /\ UNCHANGED <<started, closedChans, stopSig>>
    /\ UNCHANGED otherVars
    /\ UNCHANGED <<brokerVars, chChan, produced, closeCount, headersSent,
                   status, exit, subAt, timeVars, connects, stops>>

\* case data, ok := <-pubSub.pubChan with !ok: stopChunker, stopSubscribers.
ProducerEnded ==
    /\ brokerPc = "select"
    /\ pubChan # NilChan
    /\ pubChan \in closedChans
    /\ stopSig' = StopSigAfter(pubChan, stopSig)
    /\ stops' = StopsAfter(pubChan, stops)
    /\ started' = StartedAfterStop(started)
    /\ pubChan' = NilChan
    /\ StopSubscribers
    /\ UNCHANGED otherVars
    /\ UNCHANGED <<brokerPc, chPc, chChan, chData, closedChans,
                   produced, rpc, chunkOk, headersSent, status, exit, recv,
                   subAt, timeVars, published, connects>>

\* case sub := <-pubSub.unsubChan: doUnsubscribe; the deferred Unsubscribe
\* call of the responder returns, which ends the request: the locals of
\* ServeHTTP are gone (the response was completed before the deferred call).
DoUnsubscribe(s) ==
    /\ brokerPc = "select"
    /\ rpc[s] = "unsubscribe"
    /\ rpc' = [rpc EXCEPT ![s] = "done"]
    /\ IF s \in subscribers
       THEN /\ subscribers' = Removed(subscribers, s)
            /\ IF Cardinality(subscribers') = 0
               THEN Rearm
               ELSE UNCHANGED <<timerArmed, timerC, timerHist>>
       ELSE UNCHANGED <<subscribers, timerArmed, timerC, timerHist>>
    /\ chunkOk' = [chunkOk EXCEPT ![s] = FALSE]
    /\ headersSent' = [headersSent EXCEPT ![s] = FALSE]
    /\ status' = [status EXCEPT ![s] = 0]
    /\ exit' = [exit EXCEPT ![s] = "none"]
    /\ endTime' = [endTime EXCEPT ![s] = 0]
    /\ sendInterval' = [sendInterval EXCEPT ![s] = 0]
    /\ lastSendTime' = [lastSendTime EXCEPT ![s] = 0]
    /\ UNCHANGED otherVars
    /\ UNCHANGED <<pubChan, brokerPc, chunkerVars, closeCount, recv, subAt,
                   now, parts, histVars>>

\* The grace delay elapses: the runtime puts a value into stopTimer.C.
TimerFire ==
    /\ timerArmed
    /\ timerArmed' = FALSE
    /\ timerC' = TRUE
    /\ cStale' = (timerC /\ cStale)
    /\ drained' = FALSE
    /\ UNCHANGED otherVars
    /\ UNCHANGED <<subscribers, pubChan, brokerPc, eventSeen,
                   chunkerVars, respVars, histVars>>

\* case <-pubSub.stopTimer.C
TimerEvent ==
    /\ brokerPc = "select"
    /\ timerC
    /\ timerC' = FALSE
    /\ cStale' = FALSE
    /\ eventSeen' = TRUE
    /\ drained' = FALSE
    /\ IF TimeoutStops(subscribers)
       THEN /\ stopSig' = StopSigAfter(pubChan, stopSig)
            /\ stops' = StopsAfter(pubChan, stops)
            /\ started' = StartedAfterStop(started)
            /\ pubChan' = NilChan
       ELSE UNCHANGED <<stopSig, stops, started, pubChan>>
    /\ UNCHANGED otherVars
    /\ UNCHANGED <<subscribers, timerArmed, brokerPc, chPc, chChan,
                   chData, closedChans, produced, respVars, published,
                   connects>>

(***************************************************************************)
(* The chunker's read loop                                                 *)
(***************************************************************************)

\* Chunks the upstream delivers: one more where a single client is served.
ChunkLimit == IF Traced \/ mode = "old" THEN MaxChunks + 1 ELSE MaxChunks

\* readChunkHeader and readChunkData return a chunk of Content-Length sz.
ChunkerRead(sz) ==
    /\ chPc = "read"
    /\ produced < ChunkLimit
    /\ produced' = produced + 1
    /\ chData' = [id |-> produced + 1, size |-> sz]
    /\ chPc' = "send"
    /\ UNCHANGED otherVars
    /\ UNCHANGED <<brokerVars, started, chChan, stopSig, closedChans,
                   respVars, histVars>>

\* readChunkHeader or readChunkData returns an error.
ChunkerFail ==
    /\ chPc = "read"
    /\ ChunkerEnds
    /\ UNCHANGED otherVars
    /\ UNCHANGED <<brokerVars, chChan, produced, respVars, histVars>>

\* The select of the read loop takes the stop case.
ChunkerStopped ==
    /\ chPc = "send"
    /\ stopSig
    /\ ChunkerEnds
    /\ UNCHANGED otherVars
    /\ UNCHANGED <<brokerVars, chChan, produced, respVars, histVars>>

(***************************************************************************)
(* The stream responder: PubSub.ServeHTTP after Subscribe                  *)
(***************************************************************************)

\* strconv.ParseFloat: the fps values it accepts and what it returns for them.
FpsValue ==
    ("0" :> 0) @@ ("500" :> 500) @@ ("1000" :> 1000) @@ ("2000" :> 2000)
    @@ ("-1000" :> -1000)

\* The fps form values a request comes with ("" when the parameter is absent).
FpsInputs == {"", "abc"} \cup DOMAIN FpsValue

\* Conversion of a float quotient a/b to an integer: truncation towards zero.
Quot(a, b) ==
    LET abs(x) == IF x < 0 THEN -x ELSE x
    IN  IF (a < 0) = (b < 0) THEN abs(a) \div abs(b) ELSE -(abs(a) \div abs(b))

\* time.Duration(+Inf): the result of the conversion depends on the platform.
InfDuration == {-1, 0, 1}

\* parseSendInterval, in milliseconds: the outcomes for the form value fps.
ParseSendInterval(fps) ==
    IF fps \notin DOMAIN FpsValue THEN {0}
    ELSE IF FpsValue[fps] = 0 THEN InfDuration
    ELSE {Quot(1000, FpsValue[fps])}

\* The values of the stream duration flag, in milliseconds; 0 is no limit.
Durations == {0, 2}

\* endTime: the flag's duration from now, or 365 days (past every time the
\* clock of the model reaches) when the flag is 0.
EndTimeAt(t, d) == IF d # 0 THEN t + d ELSE t + MaxTime + 1

\* time.Now().After(endTime)
ExpiredAt(t, e) == t > e

\* Mutant of TooSoon: the comparison with sendInterval is turned around.
TooSoonReversed(iv, t, last) == iv > 0 /\ t - last > iv

\* sendInterval > 0 && time.Now().Sub(lastSendTime) < sendInterval
TooSoon(iv, t, last) == iv > 0 /\ t - last < iv

\* The behaviour follows the clock; otherwise the outcome of every test of
\* the time is open.
Clocked == mode = "timed"

\* The frame s holds passes the tests of the loop body and is to be written.
Passes(s) ==
    Clocked =>
        /\ ~ExpiredAt(now, endTime[s])
        /\ ~(headersSent[s] /\ TooSoon(sendInterval[s], now, lastSendTime[s]))

\* len(data) of a frame: the chunker hands over the header bytes of the
\* chunk followed by its Content-Length bytes of data.
PayloadLen(d) == HeadLen + d.size

\* The loop is left; the code after it runs and the deferred Unsubscribe is
\* called.  Nothing is received any more, so the record of what was received
\* (recv, subAt) is dropped here.
LeaveLoop(s, why, ok) ==
    /\ rpc' = [rpc EXCEPT ![s] = "unsubscribe"]
    /\ exit' = [exit EXCEPT ![s] = why]
    /\ chunkOk' = [chunkOk EXCEPT ![s] = ok]
    /\ status' = [status EXCEPT
                    ![s] = AfterLoopStatus(headersSent[s], ok, status[s])]
    /\ recv' = [recv EXCEPT ![s] = <<>>]
    /\ subAt' = [subAt EXCEPT ![s] = 0]

\* What ServeHTTP answers to a request it turns away before Subscribe: 405
\* for a method other than GET and HEAD, 400 for a query that does not
\* parse, nothing for a response writer that cannot flush.
RejectStatus == [method |-> 405, query |-> 400, flusher |-> 0]

\* ServeHTTP returns before it made a Subscriber.
RespReject(s, why) ==
    /\ rpc[s] = "subscribe"
    /\ \A r \in Subs : r < s => rpc[r] # "subscribe"
    /\ rpc' = [rpc EXCEPT ![s] = "rejected"]
    /\ status' = [status EXCEPT ![s] = RejectStatus[why]]
    /\ UNCHANGED otherVars
    /\ UNCHANGED <<brokerVars, chunkerVars, closeCount, chunkOk, headersSent,
                   exit, recv, subAt, timeVars, histVars>>

\* Subscribe returned; the responder prepares the multipart writer and the
\* end time and enters the select of its loop.
RespEnter(s) ==
    /\ rpc[s] = "setup"
    /\ rpc' = [rpc EXCEPT ![s] = "select"]
    /\ IF Clocked
       THEN \E fps \in FpsInputs : \E iv \in ParseSendInterval(fps) :
            \E d \in Durations :
                /\ sendInterval' = [sendInterval EXCEPT ![s] = iv]
                /\ endTime' = [endTime EXCEPT ![s] = EndTimeAt(now, d)]
       ELSE UNCHANGED <<sendInterval, endTime>>
    /\ UNCHANGED otherVars
    /\ UNCHANGED <<brokerVars, chunkerVars, closeCount, chunkOk, headersSent,
                   status, exit, recv, subAt, now, lastSendTime, parts,
                   histVars>>

\* case data, chunkOk = <-sub.ChunkChannel on a closed channel.
RespClosed(s) ==
    /\ rpc[s] = "select"
    /\ closeCount[s] > 0
    /\ LeaveLoop(s, "closed", FALSE)
    /\ UNCHANGED otherVars
    /\ UNCHANGED <<brokerVars, chunkerVars, closeCount, headersSent,
                   timeVars, histVars>>

\* case <-r.Context().Done(): the client went away.
RespCancel(s) ==
    /\ rpc[s] = "select"
    /\ LeaveLoop(s, "cancel", chunkOk[s])
    /\ UNCHANGED otherVars
    /\ UNCHANGED <<brokerVars, chunkerVars, closeCount, headersSent,
                   timeVars, histVars>>

\* A frame was received and time.Now().After(endTime).
RespExpired(s) ==
    /\ rpc[s] = "frame"
    /\ Clocked => ExpiredAt(now, endTime[s])
    /\ LeaveLoop(s, "expired", chunkOk[s])
    /\ UNCHANGED otherVars
    /\ UNCHANGED <<brokerVars, chunkerVars, closeCount, headersSent,
                   timeVars, histVars>>

\* A frame was received less than sendInterval after the last part: continue.
RespSkip(s) ==
    /\ rpc[s] = "frame"
    /\ headersSent[s]
    /\ Clocked => /\ ~ExpiredAt(now, endTime[s])
                  /\ TooSoon(sendInterval[s], now, lastSendTime[s])
    /\ rpc' = [rpc EXCEPT ![s] = "select"]
    /\ UNCHANGED otherVars
    /\ UNCHANGED <<brokerVars, chunkerVars, closeCount, chunkOk, headersSent,
                   status, exit, recv, subAt, timeVars, histVars>>

\* The frame is written as one part (after the header, for the first one).
RespWrite(s) ==
    /\ rpc[s] = "frame"
    /\ Passes(s)
    /\ headersSent' = [headersSent EXCEPT ![s] = TRUE]
    /\ status' = [status EXCEPT ![s] = 200]
    /\ lastSendTime' = [lastSendTime EXCEPT ![s] = now]
    /\ parts' = IF Traced
                THEN [parts EXCEPT ![s] =
                        Append(@, [id |-> Last(recv[s]).id,
                                   len |-> PayloadLen(Last(recv[s])),
                                   at |-> now])]
                ELSE parts
    /\ rpc' = [rpc EXCEPT ![s] = "select"]
    /\ UNCHANGED otherVars
    /\ UNCHANGED <<brokerVars, chunkerVars, closeCount, chunkOk, exit, recv,
                   subAt, now, endTime, sendInterval, histVars>>

\* mw.CreatePart or part.Write fails: return, the deferred Unsubscribe runs.
RespWriteFail(s) ==
    /\ rpc[s] = "frame"
    /\ Passes(s)
    /\ headersSent' = [headersSent EXCEPT ![s] = TRUE]
    /\ status' = [status EXCEPT ![s] = 200]
    /\ lastSendTime' = [lastSendTime EXCEPT ![s] = now]
    /\ rpc' = [rpc EXCEPT ![s] = "unsubscribe"]
    /\ exit' = [exit EXCEPT ![s] = "writeerr"]
    /\ recv' = [recv EXCEPT ![s] = <<>>]
    /\ subAt' = [subAt EXCEPT ![s] = 0]
    /\ UNCHANGED otherVars
    /\ UNCHANGED <<brokerVars, chunkerVars, closeCount, chunkOk, now,
                   endTime, sendInterval, parts, histVars>>

Next ==
    \/ \E s \in Subs : DoSubscribe(s)
    \/ ConnectOK
    \/ ConnectFail
    \/ Publish
    \/ ProducerEnded
    \/ \E s \in Subs : DoUnsubscribe(s)
    \/ TimerFire
    \/ TimerEvent
    \/ \E sz \in Sizes : ChunkerRead(sz)
    \/ ChunkerFail
    \/ ChunkerStopped
    \/ \E s \in Subs : RespEnter(s)
    \/ \E s \in Subs : RespClosed(s)
    \/ \E s \in Subs : RespCancel(s)
    \/ \E s \in Subs : RespExpired(s)
    \/ \E s \in Subs : RespSkip(s)
    \/ \E s \in Subs : RespWrite(s)
    \/ \E s \in Subs : RespWriteFail(s)

Spec == Init /\ [][Next]_vars

\* The same program with the requests that ServeHTTP turns away as well,
\* followed without the record of the frames each subscriber received.
InitReq ==
    /\ mode = "req"
    /\ BrokerInit
    /\ RespInit(Subs)
    /\ script = <<>>
    /\ ParseIdle

NextReq ==
    \/ Next
    \/ \E s \in Subs : \E why \in DOMAIN RejectStatus : RespReject(s, why)

SpecReq == InitReq /\ [][NextReq]_vars

(***************************************************************************)
(* One client served under a clock                                         *)
(***************************************************************************)

InitTimed ==
    /\ mode = "timed"
    /\ BrokerInit
    /\ RespInit({1})
    /\ script = <<>>
    /\ ParseIdle

\* A millisecond passes.
Tick ==
    /\ now < MaxTime
    /\ now' = now + 1
    /\ UNCHANGED otherVars
    /\ UNCHANGED <<brokerVars, chunkerVars, rpc, closeCount, chunkOk,
                   headersSent, status, exit, recv, subAt, endTime,
                   sendInterval, lastSendTime, parts, histVars>>

NextTimed ==
    \/ Next
    \/ Tick

SpecTimed == InitTimed /\ [][NextTimed]_vars

(***************************************************************************)
(* One client and an upstream that delivers three frames and a final chunk *)
(***************************************************************************)

\* The Content-Length values of the chunks the upstream sends.
UpstreamChunks == <<100, 200, 150, 0>>

InitE2E ==
    /\ mode = "e2e"
    /\ BrokerInit
    /\ RespInit({1})
    /\ script = UpstreamChunks
    /\ ParseIdle

\* readChunkHeader and readChunkData return the next chunk of the upstream.
ChunkerReadNext ==
    /\ chPc = "read"
    /\ script # <<>>
    /\ script' = Tail(script)
    /\ produced' = produced + 1
    /\ chData' = [id |-> produced + 1, size |-> Head(script)]
    /\ chPc' = "send"
    /\ UNCHANGED <<mode, lines, size, crashed, pubCloses, bodyCloses,
                   stopChan, stopClosed>>
    /\ UNCHANGED <<brokerVars, started, chChan, stopSig, closedChans,
                   respVars, histVars>>

\* The upstream accepts the connection and does not fail, the client stays
\* and its connection takes every write, no duration limit, no fps.
NextE2E ==
    \/ \E s \in Subs : DoSubscribe(s)
    \/ ConnectOK
    \/ Publish
    \/ ProducerEnded
    \/ \E s \in Subs : DoUnsubscribe(s)
    \/ TimerFire
    \/ TimerEvent
    \/ ChunkerReadNext
    \/ \E s \in Subs : RespEnter(s)
    \/ \E s \in Subs : RespClosed(s)
    \/ \E s \in Subs : RespWrite(s)

SpecE2E == InitE2E /\ [][NextE2E]_vars

(***************************************************************************)
(* The chunker followed line by line: readChunkHeader and readChunkData    *)
(***************************************************************************)

\* A line without its line end, as the pieces that matter to the parser.
HeaderLines ==
    { <<>>,
      <<"Content-Length", ": ", "5">>,
      <<"content-length", ": ", "5">>,
      <<"Content-Length", ": ", "0">>,
      <<"Content-Length", ": ", "abc">>,
      <<"Content-Length", ": ", "-5">>,
      <<"Content-Length", ": ">>,
      <<"Content-Length">>,
      <<"Content-Type", ": ", "abc">> }

\* What the upstream sends before it ends or fails: up to MaxLines lines.
RECURSIVE LineSeqs(_)
LineSeqs(n) ==
    IF n = 0 THEN {<<>>}
    ELSE LET shorter == LineSeqs(n - 1)
         IN  shorter \cup {Append(q, l) : q \in shorter, l \in HeaderLines}

\* strings.SplitN(lineStr, ": ", 2): the line as a whole when it has no
\* separator, else what is before and what is after the first separator.
SplitN2(line) ==
    LET seps == {i \in 1..Len(line) : line[i] = ": "}
    IN  IF seps = {} THEN <<line>>
        ELSE LET k == CHOOSE i \in seps : \A j \in seps : i <= j
             IN  <<SubSeq(line, 1, k - 1), SubSeq(line, k + 1, Len(line))>>

\* strings.EqualFold(parts[0], "Content-Length")
IsContentLength(key) == key \in {<<"Content-Length">>, <<"content-length">>}

\* strconv.Atoi: the strings it accepts and their values.
AtoiValue == ("5" :> 5) @@ ("0" :> 0) @@ ("-5" :> -5)

\* strconv.Atoi returns no error for the text v.
AtoiOK(v) == Len(v) = 1 /\ v[1] \in DOMAIN AtoiValue

InitParse ==
    /\ mode = "parse"
    /\ BrokerInit
    /\ RespInit({})
    /\ script = <<>>
    /\ lines \in LineSeqs(MaxLines)
    /\ size = -1
    /\ crashed = FALSE
    /\ pubCloses = 0
    /\ bodyCloses = 0

\* What the parse steps leave alone.
parseFrame == <<subscribers, pubChan, timerArmed, timerC, brokerPc, timerHist,
                started, chChan, stopSig, closedChans, respVars, connects,
                stops, mode, script, stopChan, stopClosed>>

\* The chunker was started and begins to read a chunk.
ParseStart ==
    /\ mode = "parse"
    /\ chPc = "none" /\ pubCloses = 0
    /\ chPc' = "boundary"
    /\ UNCHANGED <<lines, size, crashed, pubCloses, bodyCloses, chData,
                   produced, published>>
    /\ UNCHANGED parseFrame

\* The chunker function returns (panicked is FALSE) or unwinds in a panic:
\* the deferred calls close stopChan, pubChan and the body; after a panic
\* the process ends.
ParseReturns(panicked) ==
    /\ chPc' = "done"
    /\ pubCloses' = pubCloses + 1
    /\ bodyCloses' = bodyCloses + 1
    /\ crashed' = panicked
    /\ chData' = NoChunk

\* readChunkHeader reads the boundary line, whatever it holds; the read
\* fails when the upstream has nothing more.
ParseBoundary ==
    /\ chPc = "boundary"
    /\ IF lines = <<>>
       THEN ParseReturns(FALSE) /\ UNCHANGED <<lines, size>>
       ELSE /\ lines' = Tail(lines)
            /\ size' = -1
            /\ chPc' = "header"
            /\ UNCHANGED <<crashed, pubCloses, bodyCloses, chData>>
    /\ UNCHANGED <<produced, published>>
    /\ UNCHANGED parseFrame

\* One turn of readChunkHeader's loop over the header lines.
ParseLine ==
    /\ chPc = "header"
    /\ IF lines = <<>>
       THEN \* ReadSlice fails
            ParseReturns(FALSE) /\ UNCHANGED <<lines, size>>
       ELSE LET line == Head(lines)
                kv == SplitN2(line)   \* the code's parts
            IN  /\ lines' = Tail(lines)
                /\ IF line = <<>>
                   THEN IF size = -1
                        THEN \* "Content-Length chunk header not found"
                             ParseReturns(FALSE) /\ UNCHANGED size
                        ELSE /\ chPc' = "data"
                             /\ UNCHANGED <<size, crashed, pubCloses,
                                            bodyCloses, chData>>
                   ELSE IF ~IsContentLength(kv[1])
                        THEN UNCHANGED <<chPc, size, crashed, pubCloses,
                                         bodyCloses, chData>>
                        ELSE IF Len(kv) < 2
                        THEN \* parts[1] of a slice of length 1: index out of range
                             ParseReturns(TRUE) /\ UNCHANGED size
                        ELSE IF ~AtoiOK(kv[2])
                        THEN ParseReturns(FALSE) /\ UNCHANGED size
                        ELSE /\ size' = AtoiValue[kv[2][1]]
                             /\ UNCHANGED <<chPc, crashed, pubCloses,
                                            bodyCloses, chData>>
    /\ UNCHANGED <<produced, published>>
    /\ UNCHANGED parseFrame

\* readChunkData reads size bytes: make([]byte, size) panics for a negative
\* size.
ParseData ==
    /\ chPc = "data"
    /\ IF size < 0
       THEN ParseReturns(TRUE) /\ UNCHANGED produced
       ELSE /\ chPc' = "send"
            /\ produced' = produced + 1
            /\ chData' = [id |-> produced + 1, size |-> size]
            /\ UNCHANGED <<crashed, pubCloses, bodyCloses>>
    /\ UNCHANGED <<lines, size, published>>
    /\ UNCHANGED parseFrame

\* reader.Read fails before size bytes were read.
ParseDataFail ==
    /\ chPc = "data"
    /\ size > 0
    /\ ParseReturns(FALSE)
    /\ UNCHANGED <<lines, size, produced, published>>
    /\ UNCHANGED parseFrame

\* The broker takes the frame from pubChan; the chunker goes on with the
\* next chunk unless this one had size 0.
ParseSend ==
    /\ chPc = "send"
    /\ published' = Append(published, chData)
    /\ IF chData.size = 0
       THEN ParseReturns(FALSE)
       ELSE /\ chPc' = "boundary"
            /\ chData' = NoChunk
            /\ UNCHANGED <<crashed, pubCloses, bodyCloses>>
    /\ UNCHANGED <<lines, size, produced>>
    /\ UNCHANGED parseFrame

NextParse ==
    \/ ParseStart
    \/ ParseBoundary
    \/ ParseLine
    \/ ParseData
    \/ ParseDataFail
    \/ ParseSend

SpecParse == InitParse /\ [][NextParse]_vars

(***************************************************************************)
(* The broker, chunker and handler of src/mjpeg-proxy.go                   *)
(***************************************************************************)

InitOld ==
    /\ mode = "old"
    /\ BrokerInit
    /\ RespInit(Subs)
    /\ script = <<>>
    /\ ParseIdle

\* What this version of the program does not have or the model of it does
\* not follow.
oldIdle == <<timerArmed, timerC, timerHist, started, stopSig, headersSent,
             status, exit, recv, subAt, timeVars, stops, mode, script, lines,
             size, pubCloses, bodyCloses>>

\* doSubscribe starts the publisher only for a set of exactly one subscriber.
OldStartsPublisher(subs) == Cardinality(subs) = 1

\* stopPublisher sends on stopChan whenever the field is not nil.
OldSendsStop(ch) == ch # NilChan

\* stopSubscribers: close(s.ChunkChannel) for every subscriber in the set,
\* which stays in the set; closing a closed channel panics.
OldStopSubscribers ==
    /\ closeCount' = [s \in Subs |->
                        IF s \in subscribers
                        THEN closeCount[s] + 1 ELSE closeCount[s]]
    /\ IF \E s \in subscribers : closeCount[s] > 0
       THEN brokerPc' = "panicClose" /\ crashed' = TRUE
       ELSE brokerPc' = "select" /\ UNCHANGED crashed

\* The chunker returns: its deferred calls close stopChan, then pubChan,
\* then the body.
OldChunkerEnds ==
    /\ stopClosed' = stopClosed \cup {chChan}
    /\ closedChans' = closedChans \cup {chChan}
    /\ chPc' = "none"
    /\ chData' = NoChunk

\* case sub := <-pubsub.subChan: doSubscribe, up to connectChunker.
OldSubscribe(s) ==
    /\ ~crashed
    /\ brokerPc = "select"
    /\ rpc[s] = "subscribe"
    /\ \A r \in Subs : r < s => rpc[r] # "subscribe"
    /\ subscribers' = subscribers \cup {s}
    /\ rpc' = [rpc EXCEPT ![s] = "select"]
    /\ IF OldStartsPublisher(subscribers')
       THEN brokerPc' = "connect" /\ connects' = connects + 1
       ELSE UNCHANGED <<brokerPc, connects>>
    /\ UNCHANGED <<pubChan, stopChan, stopClosed, closedChans, chPc, chChan,
                   chData, produced, closeCount, chunkOk, published, crashed>>
    /\ UNCHANGED oldIdle

\* connectChunker succeeds: startPublisher makes pubChan and stopChan and
\* starts the chunker.
OldConnectOK ==
    /\ ~crashed
    /\ brokerPc = "connect"
    /\ brokerPc' = "select"
    /\ pubChan' = connects
    /\ stopChan' = connects
    /\ chChan' = connects
    /\ chPc' = "read"
    /\ UNCHANGED <<subscribers, stopClosed, closedChans, chData, produced,
                   rpc, closeCount, chunkOk, published, connects, crashed>>
    /\ UNCHANGED oldIdle

\* connectChunker fails: doSubscribe calls stopSubscribers.
OldConnectFail ==
    /\ ~crashed
    /\ brokerPc = "connect"
    /\ OldStopSubscribers
    /\ UNCHANGED <<subscribers, pubChan, stopChan, stopClosed, closedChans,
                   chPc, chChan, chData, produced, rpc, chunkOk, published,
                   connects>>
    /\ UNCHANGED oldIdle

\* readChunkHeader and readChunkData return a chunk of Content-Length sz.
OldChunkerRead(sz) ==
    /\ ~crashed
    /\ chPc = "read"
    /\ produced < ChunkLimit
    /\ produced' = produced + 1
    /\ chData' = [id |-> produced + 1, size |-> sz]
    /\ chPc' = "send"
    /\ UNCHANGED <<subscribers, pubChan, stopChan, stopClosed, closedChans,
                   brokerPc, chChan, rpc, closeCount, chunkOk, published,
                   connects, crashed>>
    /\ UNCHANGED oldIdle

\* readChunkHeader or readChunkData returns an error and the chunker ends;
\* a broker that is blocked in its send on stopChan panics when the channel
\* is closed under it.
OldChunkerFail ==
    /\ ~crashed
    /\ chPc = "read"
    /\ OldChunkerEnds
    /\ IF brokerPc = "stopping"
       THEN brokerPc' = "panic" /\ crashed' = TRUE
       ELSE UNCHANGED <<brokerPc, crashed>>
    /\ UNCHANGED <<subscribers, pubChan, stopChan, chChan, produced, rpc,
                   closeCount, chunkOk, published, connects>>
    /\ UNCHANGED oldIdle

\* case data, ok := <-pubsub.pubChan with ok: doPublish; the chunker goes
\* on, or ends after the final chunk.  A send on a closed delivery channel
\* panics.
OldPublish ==
    /\ ~crashed
    /\ brokerPc = "select"
    /\ chPc = "send"
    /\ pubChan # NilChan
    /\ pubChan = chChan
    /\ published' = Append(published, chData)
    /\ IF \E s \in subscribers : closeCount[s] > 0
       THEN /\ brokerPc' = "panicClose" /\ crashed' = TRUE
            /\ UNCHANGED <<rpc, chunkOk>>
       ELSE /\ rpc' = [s \in Subs |->
                         IF s \in Delivered(subscribers) THEN "frame" ELSE rpc[s]]
            /\ chunkOk' = [s \in Subs |->
                         IF s \in Delivered(subscribers) THEN TRUE ELSE chunkOk[s]]
            /\ UNCHANGED <<brokerPc, crashed>>
    /\ IF chData.size = 0
       THEN OldChunkerEnds
       ELSE /\ chPc' = "read"
            /\ chData' = NoChunk
            /\ UNCHANGED <<stopClosed, closedChans>>
    /\ UNCHANGED <<subscribers, pubChan, stopChan, chChan, produced,
                   closeCount, connects>>
    /\ UNCHANGED oldIdle

\* case data, ok := <-pubsub.pubChan with !ok: stopChan = nil,
\* stopPublisher (which then sends nothing), stopSubscribers.
OldProducerEnded ==
    /\ ~crashed
    /\ brokerPc = "select"
    /\ pubChan # NilChan
    /\ pubChan \in closedChans
    /\ stopChan' = NilChan
    /\ pubChan' = NilChan
    /\ OldStopSubscribers
    /\ UNCHANGED <<subscribers, stopClosed, closedChans, chPc, chChan, chData,
                   produced, rpc, chunkOk, published, connects>>
    /\ UNCHANGED oldIdle

\* case sub := <-pubsub.unsubChan: doUnsubscribe; for an emptied set
\* stopPublisher, whose send on stopChan panics when the chunker has closed
\* the channel and otherwise blocks until the chunker takes the value.
OldUnsubscribe(s) ==
    /\ ~crashed
    /\ brokerPc = "select"
    /\ rpc[s] = "unsubscribe"
    /\ rpc' = [rpc EXCEPT ![s] = "done"]
    /\ chunkOk' = [chunkOk EXCEPT ![s] = FALSE]
    /\ subscribers' = subscribers \ {s}
    /\ IF Cardinality(subscribers') # 0
       THEN UNCHANGED <<brokerPc, crashed, stopChan, pubChan>>
       ELSE IF ~OldSendsStop(stopChan)
       THEN /\ stopChan' = NilChan
            /\ pubChan' = NilChan
            /\ UNCHANGED <<brokerPc, crashed>>
       ELSE IF stopChan \in stopClosed
       THEN /\ brokerPc' = "panic"
            /\ crashed' = TRUE
            /\ UNCHANGED <<stopChan, pubChan>>
       ELSE /\ brokerPc' = "stopping"
            /\ UNCHANGED <<crashed, stopChan, pubChan>>
    /\ UNCHANGED <<stopClosed, closedChans, chPc, chChan, chData, produced,
                   closeCount, published, connects>>
    /\ UNCHANGED oldIdle

\* The chunker's select takes the value the broker sends on stopChan: the
\* chunker ends, stopPublisher clears both fields and returns.
OldStopTaken ==
    /\ ~crashed
    /\ brokerPc = "stopping"
    /\ chPc = "send"
    /\ OldChunkerEnds
    /\ brokerPc' = "select"
    /\ stopChan' = NilChan
    /\ pubChan' = NilChan
    /\ UNCHANGED <<subscribers, chChan, produced, rpc, closeCount, chunkOk,
                   published, connects, crashed>>
    /\ UNCHANGED oldIdle

\* makeHandler: data, ok := <-sub.ChunkChannel with !ok.
OldRespClosed(s) ==
    /\ ~crashed
    /\ rpc[s] = "select"
    /\ closeCount[s] > 0
    /\ rpc' = [rpc EXCEPT ![s] = "unsubscribe"]
    /\ UNCHANGED <<subscribers, pubChan, stopChan, stopClosed, closedChans,
                   brokerPc, chPc, chChan, chData, produced, closeCount,
                   chunkOk, published, connects, crashed>>
    /\ UNCHANGED oldIdle

\* makeHandler: the chunk is written to the client.
OldRespWrite(s) ==
    /\ ~crashed
    /\ rpc[s] = "frame"
    /\ rpc' = [rpc EXCEPT ![s] = "select"]
    /\ UNCHANGED <<subscribers, pubChan, stopChan, stopClosed, closedChans,
                   brokerPc, chPc, chChan, chData, produced, closeCount,
                   chunkOk, published, connects, crashed>>
    /\ UNCHANGED oldIdle

\* makeHandler: w.Write fails (the client is gone).
OldRespWriteFail(s) ==
    /\ ~crashed
    /\ rpc[s] = "frame"
    /\ rpc' = [rpc EXCEPT ![s] = "unsubscribe"]
    /\ UNCHANGED <<subscribers, pubChan, stopChan, stopClosed, closedChans,
                   brokerPc, chPc, chChan, chData, produced, closeCount,
                   chunkOk, published, connects, crashed>>
    /\ UNCHANGED oldIdle

NextOld ==
    \/ \E s \in Subs : OldSubscribe(s)
    \/ OldConnectOK
    \/ OldConnectFail
    \/ \E sz \in Sizes : OldChunkerRead(sz)
    \/ OldChunkerFail
    \/ OldPublish
    \/ OldProducerEnded
    \/ \E s \in Subs : OldUnsubscribe(s)
    \/ OldStopTaken
    \/ \E s \in Subs : OldRespClosed(s)
    \/ \E s \in Subs : OldRespWrite(s)
    \/ \E s \in Subs : OldRespWriteFail(s)

SpecOld == InitOld /\ [][NextOld]_vars

TypeOK ==
    /\ subscribers \subseteq Subs
    /\ pubChan \in 0..NSubs
    /\ timerArmed \in BOOLEAN /\ timerC \in BOOLEAN
    /\ brokerPc \in {"select", "connect", "stopping", "panic", "panicClose"}
    /\ started \in BOOLEAN
    /\ chPc \in {"none", "read", "send", "boundary", "header", "data", "done"}
    /\ crashed \in BOOLEAN
    /\ size \in Int
    /\ chChan \in 0..NSubs
    /\ stopSig \in BOOLEAN
    /\ closedChans \subseteq 1..NSubs
    /\ produced \in Nat
    /\ connects \in 0..NSubs
    /\ \A s \in Subs :
          /\ rpc[s] \in {"subscribe", "setup", "select", "frame", "unsubscribe", "done", "rejected"}
          /\ status[s] \in {0, 200, 400, 405, 503}
          /\ closeCount[s] \in Nat
          /\ subAt[s] \in Nat
          /\ lastSendTime[s] \in 0..MaxTime
    /\ now \in 0..MaxTime
    /\ cStale \in BOOLEAN /\ eventSeen \in BOOLEAN /\ drained \in BOOLEAN

(***************************************************************************)
(* Properties                                                              *)
(***************************************************************************)

Active(s) == rpc[s] \in {"setup", "select", "frame"}

RECURSIVE IsSubseq(_, _)
\* a is a subsequence of b
IsSubseq(a, b) ==
    IF a = <<>> THEN TRUE
    ELSE IF b = <<>> THEN FALSE
    ELSE IF Head(a) = Head(b) THEN IsSubseq(Tail(a), Tail(b))
    ELSE IsSubseq(a, Tail(b))

\* C1: a publish step completes without waiting (the broker is back in its
\* select), leaves membership and channels alone, hands the frame to every
\* subscriber that is parked in its select, and changes nothing for a
\* subscriber that is not: that one just does not get the frame.
C1_PublishNeverWaits ==
    [][published' # published =>
        /\ brokerPc' = "select"
        /\ subscribers' = subscribers
        /\ closeCount' = closeCount
        /\ \A s \in subscribers :
              IF rpc[s] = "select"
              THEN /\ recv'[s] = Append(recv[s], Last(published'))
                   /\ rpc'[s] = "frame"
              ELSE /\ recv'[s] = recv[s]
                   /\ rpc'[s] = rpc[s]
                   /\ status'[s] = status[s]]_vars

\* C1 witness: two subscribers were in the set when the last frame was
\* published; one received it and the other did not.
C1_Witness ==
    \E s \in subscribers : \E r \in subscribers :
        /\ s # r
        /\ published # <<>>
        /\ subAt[s] < Len(published) /\ subAt[r] < Len(published)
        /\ Active(s) /\ Active(r)
        /\ recv[s] # <<>> /\ Last(recv[s]) = Last(published)
        /\ (recv[r] = <<>> \/ Last(recv[r]) # Last(published))

\* C2: the timer case of the loop stops the chunker (Stop called once more,
\* handle cleared) when the set is empty and the broker holds a handle, and
\* changes neither the handle nor the chunker when a subscriber is in the
\* set; and Stop is never called twice for one start of the chunker.
C2_IdleStopExactlyOnce ==
    /\ [][TimerEvent =>
            IF subscribers = {}
            THEN /\ pubChan' = NilChan
                 /\ (pubChan # NilChan => stops' = stops + 1)
                 /\ (pubChan = NilChan => stops' = stops)
            ELSE UNCHANGED <<pubChan, stops, stopSig, started, chPc>>]_vars
    /\ [](stops <= 1)

\* C2 witness: the idle timeout stopped a chunker that is still running.
C2_Witness ==
    /\ stops = 1
    /\ started
    /\ stopSig
    /\ pubChan = NilChan
    /\ subscribers = {}

C4_ParserRunsIffDemand ==
    brokerPc = "select" =>
        /\ (subscribers # {} => pubChan # NilChan)
        /\ (pubChan # NilChan /\ subscribers = {} => timerArmed \/ timerC)

\* C5: once the idle timeout has stopped the chunker, no subscriber is left
\* in the set with an open channel while the broker holds no publish channel
\* and no further subscribe is coming that could start one.
C5_FreshStartAfterIdleStop ==
    (brokerPc = "select" /\ stops > 0 /\ \A r \in Subs : rpc[r] # "subscribe")
        => \A s \in subscribers : pubChan # NilChan \/ closeCount[s] > 0

\* C6: the producer-ended step clears the handle, closes the channel of
\* every subscriber then in the set for the first and only time, closes no
\* other channel and leaves the set empty; no channel is ever closed twice,
\* and a subscriber whose channel is closed is no longer in the set.
C6_ProducerEndedClosesAll ==
    /\ [][ProducerEnded =>
            /\ pubChan' = NilChan
            /\ subscribers' = {}
            /\ \A s \in subscribers :
                  closeCount[s] = 0 /\ closeCount'[s] = 1
            /\ \A s \in Subs \ subscribers : closeCount'[s] = closeCount[s]
         ]_vars
    /\ [](\A s \in Subs :
            /\ closeCount[s] <= 1
            /\ (closeCount[s] > 0 => s \notin subscribers))

\* C6 witness: the one run of the chunker ended and both subscribers had
\* their channel closed by the producer-ended step.
C6_Witness ==
    /\ connects = 1
    /\ closedChans = {1}
    /\ pubChan = NilChan
    /\ subscribers = {}
    /\ \A s \in Subs : closeCount[s] = 1

\* C7: whenever a Subscribe or Unsubscribe call is pending, the broker is in
\* its select and not inside a handler that waits for the upstream.
C7_BrokerNeverWaitsOnUpstream ==
    \A s \in Subs :
        rpc[s] \in {"subscribe", "unsubscribe"} => brokerPc = "select"

\* C8: when every subscriber of a non-empty set is parked in its select as a
\* frame is published, every one of them receives that frame, after all the
\* frames it received before.
C8_AllReadyAllReceive ==
    [][(/\ published' # published
        /\ subscribers # {}
        /\ \A s \in subscribers : rpc[s] = "select")
       => \A s \in subscribers :
             /\ recv'[s] = Append(recv[s], Last(published'))
             /\ \A i \in 1..Len(recv[s]) :
                   recv[s][i].id < Last(published').id]_vars

\* C8 witness: every request is subscribed and has received both published
\* frames, in order.
C8_Witness ==
    /\ Len(published) = MaxChunks
    /\ \A s \in Subs : s \in subscribers /\ recv[s] = published

\* C9: what a subscriber has received is a subsequence of the frames
\* published since its subscribe was processed.
C9_ReceivedIsSubsequence ==
    \A s \in Subs :
        Active(s) =>
            IsSubseq(recv[s], SubSeq(published, subAt[s] + 1, Len(published)))

\* C9 witness: a subscriber missed the first frame published during its
\* subscription and received the second.
C9_Witness ==
    \E s \in subscribers :
        /\ Active(s)
        /\ subAt[s] = 0
        /\ Len(published) = 2
        /\ recv[s] = <<published[2]>>

\* C10: a responder that has left its loop answered 503 exactly when its
\* channel was closed before any part was sent.
C10_503OnlyOnProducerFailure ==
    \A s \in Subs :
        rpc[s] = "unsubscribe" =>
            (status[s] = 503 <=> (exit[s] = "closed" /\ ~headersSent[s]))

\* Between the return of Subscribe and the return of the deferred Unsubscribe.
Handling(s) == rpc[s] \in {"setup", "select", "frame", "unsubscribe"}

\* C12 as stated: a subscriber is in the set for exactly the time its
\* responder is handling the request, from the subscribe being processed
\* to the unsubscribe being processed.
C12_MemberExactlyWhileHandled ==
    \A s \in Subs : s \in subscribers <=> Handling(s)

\* C12, amended: a subscriber is in the set only while its responder is
\* handling the request, and is missing from the set during that time only
\* when the broker closed its channel; a request ends only by its single
\* unsubscribe being processed, whatever way the loop was left, and is then
\* not in the set; a rejected request never made a subscribe and is never
\* in the set.
C12_MemberOnlyWhileHandled ==
    /\ [](\A s \in Subs :
            /\ s \in subscribers => Handling(s) /\ closeCount[s] = 0
            /\ Handling(s) /\ s \notin subscribers => closeCount[s] = 1
            /\ rpc[s] \in {"done", "rejected"} => s \notin subscribers)
    /\ [][\A s \in Subs :
            /\ Handling(s) /\ ~Handling(s)' =>
                  /\ rpc[s] = "unsubscribe" /\ rpc'[s] = "done"
                  /\ s \notin subscribers'
            /\ rpc[s] = "unsubscribe" => rpc'[s] \in {"unsubscribe", "done"}
            /\ rpc[s] \in {"select", "frame"} /\ rpc'[s] \notin {"select", "frame"}
                  => rpc'[s] = "unsubscribe"
            /\ rpc'[s] = "rejected" =>
                  /\ rpc[s] \in {"subscribe", "rejected"}
                  /\ s \notin subscribers /\ s \notin subscribers'
            /\ s \in subscribers' \ subscribers =>
                  rpc[s] = "subscribe" /\ rpc'[s] = "setup"]_vars

\* C12 witness: one request was rejected, one is still being handled after
\* the broker closed its channel and removed it, and one has ended through
\* its unsubscribe.
C12_Witness ==
    \E s \in Subs : \E r \in Subs :
        /\ rpc[s] = "rejected" /\ status[s] = 405
        /\ Handling(r) /\ r \notin subscribers /\ closeCount[r] = 1
        /\ exit[r] = "closed"

\* C14: the chunker hands no frame to the broker for a chunk of
\* Content-Length 0: every frame the broker took from pubChan belongs to a
\* chunk of positive Content-Length.
C14_FinalChunkNotPublished ==
    \A i \in 1..Len(published) : published[i].size > 0

\* C17: the timer case runs at most once per arming of the idle timer; when
\* it stops the chunker (empty set) the value it took from C was sent by
\* the delay armed when the set last became empty, not by an earlier one;
\* and a re-arm leaves no earlier value in C (the timer is never running
\* with a value waiting).
C17_IdleTimerArmCycle ==
    /\ [][TimerEvent =>
            /\ ~eventSeen
            /\ TimeoutStops(subscribers) => ~cStale]_vars
    /\ [](~(timerArmed /\ timerC))
    /\ [](~cStale)
    /\ [][subscribers # {} /\ subscribers' = {} =>
            timerArmed' /\ ~timerC' /\ ~eventSeen']_vars

\* C17 witness: the delay fired, and before the broker took the value the
\* set became empty again: the re-arm drained the value.
C17_Witness ==
    /\ drained
    /\ timerArmed
    /\ ~timerC
    /\ subscribers = {}

\* C18: no delivery channel is closed twice; every subscriber in the set,
\* so every one doPublish sends to, has an open channel; a channel is closed
\* only in a step that also removes its subscriber; the unsubscribe of a
\* subscriber whose channel the broker closed changes neither the set, the
\* chunker handle nor the idle timer; and a frame is handed only to a
\* subscriber in the set whose channel is open.
C18_ChannelDiscipline ==
    /\ [](\A s \in Subs : closeCount[s] <= 1)
    /\ [](\A s \in subscribers : closeCount[s] = 0)
    /\ [][\A s \in Subs :
            /\ closeCount'[s] # closeCount[s] =>
                  s \in subscribers /\ s \notin subscribers'
            /\ rpc[s] = "unsubscribe" /\ rpc'[s] = "done" /\ closeCount[s] > 0 =>
                  UNCHANGED <<subscribers, pubChan, timerArmed, timerC>>
            /\ rpc[s] # "frame" /\ rpc'[s] = "frame" =>
                  s \in subscribers /\ closeCount[s] = 0]_vars

\* C18 witness: the unsubscribe of a subscriber whose channel the broker
\* had closed was processed while another subscriber is being served.
C18_Witness ==
    \E s \in Subs : \E r \in subscribers :
        /\ rpc[s] = "done"
        /\ closeCount[s] = 1
        /\ closeCount[r] = 0
        /\ pubChan # NilChan
        /\ rpc[r] = "frame"

\* A step in which responder s leaves its loop because the stream duration
\* has expired.
LeavesOnExpiry(s) == rpc'[s] = "unsubscribe" /\ exit'[s] = "expired"

\* C11: expiry of the stream duration ends the wait of the loop like a
\* frame or a cancellation does: a responder that is waiting in its select
\* after its end time can leave the loop on account of the expiry, without
\* receiving anything on its channel.
C11_ExpiryEndsWait ==
    \A s \in Subs :
        rpc[s] = "select" /\ now > endTime[s]
            => ENABLED (NextTimed /\ LeavesOnExpiry(s))

\* C11, the part of the claim that holds: no part is written after the end
\* time.
C11_NoPartAfterExpiry ==
    \A s \in Subs : \A i \in 1..Len(parts[s]) :
        rpc[s] \in {"select", "frame"} => parts[s][i].at <= endTime[s]

\* C16: with sendInterval > 0 any two consecutive parts are at least
\* sendInterval apart; a frame received less than sendInterval after the
\* last part is skipped, the response stays open and nothing is written; a
\* part is always the frame received last, so a skipped frame is not sent
\* later; with sendInterval = 0 every received frame is written (unless the
\* duration has expired or the write fails); and an absent or unparseable
\* fps gives sendInterval = 0.
C16_Throttle ==
    /\ [](\A s \in Subs : \A i \in 1..Len(parts[s]) - 1 :
            sendInterval[s] > 0 =>
                parts[s][i + 1].at - parts[s][i].at >= sendInterval[s])
    /\ [][\A s \in Subs :
            /\ parts'[s] # parts[s] =>
                  /\ rpc[s] = "frame"
                  /\ parts'[s] = Append(parts[s],
                                   [id |-> Last(recv[s]).id,
                                    len |-> HeadLen + Last(recv[s]).size,
                                    at |-> now])
            /\ rpc[s] = "frame" /\ rpc'[s] # "frame" /\ now <= endTime[s] =>
                  IF /\ headersSent[s]
                     /\ sendInterval[s] > 0
                     /\ now - lastSendTime[s] < sendInterval[s]
                  THEN /\ rpc'[s] = "select"
                       /\ parts'[s] = parts[s]
                       /\ status'[s] = status[s]
                       /\ lastSendTime'[s] = lastSendTime[s]
                  ELSE \/ Len(parts'[s]) = Len(parts[s]) + 1
                       \/ exit'[s] = "writeerr"]_vars
    /\ [](ParseSendInterval("") = {0} /\ ParseSendInterval("abc") = {0})

\* C16 witness: with sendInterval = 2 the first frame was written, the
\* second was skipped and the third was written two milliseconds after the
\* first.
C16_Witness ==
    /\ sendInterval[1] = 2
    /\ Len(parts[1]) = 2
    /\ parts[1][1].id = 1
    /\ parts[1][2].id = 3
    /\ parts[1][2].at - parts[1][1].at = 2

\* The Content-Length values of the parts written to client s, in order.
PartLengths(s) == [i \in 1..Len(parts[s]) |-> parts[s][i].len]

\* C13: when the response of the single client ends, the client has got
\* exactly three parts whose Content-Length values are 100, 200 and 150, in
\* that order.
C13_ThreePartsThenEnd ==
    rpc[1] = "unsubscribe" => PartLengths(1) = <<100, 200, 150>>

\* C15: whatever the upstream sends (a header without Content-Length, a
\* Content-Length line without ": " or without a value, a length that is
\* not a number or is negative, or an I/O error at any point), the chunker
\* ends without a crash, having closed the publish channel once and the
\* body once, and no frame of a negative length was published.
C15_MalformedHeaderEndsCleanly ==
    /\ ~crashed
    /\ pubCloses <= 1 /\ bodyCloses <= 1
    /\ chPc = "done" => pubCloses = 1 /\ bodyCloses = 1
    /\ \A i \in 1..Len(published) : published[i].size >= 0

\* C19: the broker of mjpeg-proxy.go never sends on a stop channel that
\* the chunker has closed: stopPublisher neither starts a send on a closed
\* stopChan nor is blocked in its send when the chunker closes the channel,
\* so the broker never panics on that send.
C19_NoSendOnClosedStopChan ==
    /\ brokerPc # "panic"
    /\ brokerPc = "stopping" => stopChan \notin stopClosed

\* C20: the broker of mjpeg-proxy.go is never back in its select with no
\* publisher while a subscriber in the set waits on an open channel: such
\* a subscriber gets no frame and no close from then on, since a publisher
\* is started only by a subscribe that finds the set empty.
C20_NoStarvedSubscriber ==
    brokerPc = "select" /\ pubChan = NilChan =>
        \A s \in subscribers : closeCount[s] > 0

====
